---- MODULE Spec2Model ----
(***************************************************************************)
(* Model of the three instrument-control scripts                           *)
(*   src/Control_Both.py          (NHR grid simulator + Chroma load)       *)
(*   src/Croma/Control Load.py    (Chroma load alone)                      *)
(*   src/NHR/NHR_control_test.py  (NHR grid simulator alone)               *)
(* Every command is one step that either succeeds or raises a transport    *)
(* error; a query, the assignment of its answer and the check of the       *)
(* assigned value are steps of their own, as Ctrl+C can come between them. *)
(* The answers of the instruments and the operator's keys are inputs drawn *)
(* from small sets.                                                        *)
(***************************************************************************)
EXTENDS Integers, Sequences, FiniteSets

(***************************************************************************)
(* Python floats (IEEE-754 binary64), for the values the scripts compute   *)
(* with: a non-negative double below 256 is the integer N = value * 2^56,  *)
(* kept as four 16-bit limbs <<a1, a2, a3, a4>>, a1 the most significant.  *)
(* NaN (not-a-number) is the tuple <<-1, 0, 0, 0>>, which no double is.    *)
(***************************************************************************)
Limb == 2 ^ 16

NaN == <<-1, 0, 0, 0>>

\* a variable the script has not assigned yet
Unset == <<-2, 0, 0, 0>>

DZero == <<0, 0, 0, 0>>

\* the k with 2^k <= n < 2^(k+1), by bisection below 2^16
Log2Floor(n) ==
    IF n >= 65536 THEN CHOOSE k \in 16..30 : 2 ^ k <= n /\ n < 2 ^ (k + 1)
    ELSE IF n < 256
    THEN IF n < 16
         THEN IF n < 4 THEN (IF n < 2 THEN 0 ELSE 1) ELSE (IF n < 8 THEN 2 ELSE 3)
         ELSE IF n < 64 THEN (IF n < 32 THEN 4 ELSE 5)
                        ELSE (IF n < 128 THEN 6 ELSE 7)
    ELSE IF n < 4096
         THEN IF n < 1024 THEN (IF n < 512 THEN 8 ELSE 9)
                          ELSE (IF n < 2048 THEN 10 ELSE 11)
         ELSE IF n < 16384 THEN (IF n < 8192 THEN 12 ELSE 13)
                           ELSE (IF n < 32768 THEN 14 ELSE 15)

\* carry (or borrow) propagation; the top limb keeps what is left
Norm(a) ==
    LET t3 == a[3] + (a[4] \div Limb)
        t2 == a[2] + (t3 \div Limb)
        t1 == a[1] + (t2 \div Limb)
    IN  <<t1, t2 % Limb, t3 % Limb, a[4] % Limb>>

\* spacing of the doubles around a (in units of 2^-56): 53 significant bits
Quantum(a) == IF a[1] < 16 THEN 1 ELSE 2 ^ (Log2Floor(a[1]) - 4)

\* round to nearest double, ties to even
DRound(a) ==
    LET n    == Norm(a)
        q    == Quantum(n)
        r    == n[4] % q
        m    == n[4] \div q
        up   == (2 * r > q) \/ (2 * r = q /\ m % 2 = 1)
    IN  Norm(<<n[1], n[2], n[3], n[4] - r + (IF up THEN q ELSE 0)>>)

\* x < y; False when either is NaN, as every comparison with NaN is
DLt(x, y) ==
    /\ x # NaN
    /\ y # NaN
    /\ \E k \in 1..4 : x[k] < y[k] /\ \A j \in 1..(k - 1) : x[j] = y[j]

DLeq(x, y) == x # NaN /\ y # NaN /\ (x = y \/ DLt(x, y))

\* x + y as Python computes it
DAdd(x, y) == DRound(<<x[1] + y[1], x[2] + y[2], x[3] + y[3], x[4] + y[4]>>)

\* abs(x - y) as Python computes it
DAbsDiff(x, y) ==
    LET hi == IF DLt(x, y) THEN y ELSE x
        lo == IF DLt(x, y) THEN x ELSE y
    IN  DRound(<<hi[1] - lo[1], hi[2] - lo[2], hi[3] - lo[3], hi[4] - lo[4]>>)

\* y / 2 for a y whose lowest bit is 0
Half(y) ==
    LET h2 == (y[1] % 2) * Limb + y[2]
        h3 == (h2 % 2) * Limb + y[3]
        h4 == (h3 % 2) * Limb + y[4]
    IN  <<y[1] \div 2, h2 \div 2, h3 \div 2, h4 \div 2>>

\* x * 1.5 as Python computes it, for x = 0 or x >= 1/16: the product 3x is
\* rounded at the spacing of 3x, which is twice the spacing of 3x/2
DMul15(x) == Half(DRound(<<3 * x[1], 3 * x[2], 3 * x[3], 3 * x[4]>>))

\* float("<t/10>"): the double nearest to the decimal t/10, for a natural t
FloatOfTenths(t) ==
    IF t = 0 THEN DZero
    ELSE LET q  == 2 ^ Log2Floor((16 * t) \div 10)
             d  == 10 * q
             q1 == (t * 256) \div d
             r1 == (t * 256) % d
             q2 == (r1 * Limb) \div d
             r2 == (r1 * Limb) % d
             q3 == (r2 * Limb) \div d
             r3 == (r2 * Limb) % d
             q4 == (r3 * Limb) \div d
             r4 == (r3 * Limb) % d
             up == (2 * r4 > d) \/ (2 * r4 = d /\ q4 % 2 = 1)
         IN  Norm(<<q1 * q, q2 * q, q3 * q, (q4 + (IF up THEN 1 ELSE 0)) * q>>)

(***************************************************************************)
(* Configuration of src/Control_Both.py                                    *)
(***************************************************************************)
VOLTAGE_START_V == 100
VOLTAGE_STOP_V == 150
VOLTAGE_STEP_V == 25
CURRENT_START_A == DZero
CURRENT_STOP_A == FloatOfTenths(100)
CURRENT_STEP_A == FloatOfTenths(25)

\* src/NHR/NHR_control_test.py: range(30, 151, 10)
NHR_START_V == 30
NHR_STOP_V == 151
NHR_STEP_V == 10

\* src/Croma/Control Load.py: range(int(ISET_A) + 1)
ISET_A == 10

(***************************************************************************)
(* Inputs: the operator's keys and the instruments' answers.  An answer is *)
(* <<"num", t>>, the decimal text of t/10, or <<"ERR", 0>>, a text that is *)
(* no number.                                                              *)
(***************************************************************************)
MaxKeys == 2
ReadbackSpread == 2

Keys == {"q", "x", "E0"}            \* E0: the first byte of an arrow key

BadText == <<"ERR", 0>>
NoText == <<"unset", 0>>            \* no answer read yet
MeasAnswers == {<<"num", 1205>>, BadText}
\* answers to SYSTem:ERRor?, as their characters: 0 / OK / 0,N... / -1... / 00
ErrAnswers ==
    {<<"0">>, <<"O", "K">>, <<"0", ",", "N">>, <<"-", "1">>, <<"0", "0">>}
StatusAnswers == {"1", "OK", "0"}
NoError == <<>>                     \* no error_string (not read yet, or the
                                    \* connect function has returned)
Unbound == 0 - 1                    \* a loop variable before its for statement
NoStatus == "unset"                 \* no load_status read yet
NoReply == <<>>                     \* no value waiting to be assigned

\* whether float(text) returns; it raises ValueError otherwise
IsNumber(text) == text[1] = "num"

\* float(text), for a text that is a number
Float(text) == FloatOfTenths(text[2])

\* parse_float(text): float(text), and NaN where float raises
parse_float(text) == IF IsNumber(text) THEN Float(text) ELSE NaN

\* the tolerance check: abs(readback_current - setpoint) > 0.1
OutOfTolerance(readback, setpoint) ==
    DLt(FloatOfTenths(1), DAbsDiff(readback, setpoint))

\* range(start, stop, step): the loop runs for v while v < stop
InRange(v, stop) == v < stop

\* a loop that leaves out its last setpoint
WhileCond_Strict(a, stop) == DLt(a, stop)

\* while i_set <= CURRENT_STOP_A
WhileCond(a, stop) == DLeq(a, stop)

\* a peak limit of 0 for a zero setpoint
PeakLimit_ZeroAtZero(a) == IF DLt(DZero, a) THEN DMul15(a) ELSE DZero

\* i_set * 1.5 if i_set > 0 else 0.1
PeakLimit(a) == IF DLt(DZero, a) THEN DMul15(a) ELSE FloatOfTenths(1)

VARIABLES
    script,             \* which of the three scripts runs
    pc,                 \* the statement it is at
    exc,                \* the exception raised, "none" before
    propagating,        \* the exception is not caught (yet): it ends the
                        \* script with a traceback unless an except clause
                        \* catches it
    trace,              \* every command, query and console record so far
    kbd,                \* keys pressed and not yet read by msvcrt.getch()
    qMark,              \* the abort request that is followed: 1 + the length
                        \* of trace when 'q' was first pressed during a point
                        \* or between two points; 0 before, and once an
                        \* exception has ended the sweep
    simChan,            \* the socket: "none", "open", "closed"
    loadChan,           \* the VISA resource: "none", "open", "closed"
    simulator_socket,   \* the script's variable: "None" or "sock"
    load_instrument,    \* the script's variable: "None" or "inst"
    v_set,              \* Control_Both: the outer loop variable
    i_set,              \* Control_Both: the inner loop accumulator
    i,                  \* Control Load: the loop variable
    voltage_step,       \* NHR_control_test: the loop variable
    readback_current_str,
    v_meas, i_meas, p_meas,
    v_meas_str, i_meas_str, p_meas_str,     \* Control Load: the answers to
                        \* the three measurement queries, parsed after the
                        \* third
    error_string,       \* the local of the connect function of the load; an
                        \* exception raised on it carries it in its message
    load_status,        \* Control Load: the answer to 'LOAD:STATus?'
    reply,              \* what a call has returned and its statement has not
                        \* assigned or compared yet: the answer to a query,
                        \* or the key read by msvcrt.getch()
    axis                \* a sweep loop run alone on a configuration (SpecAxis)

vars == <<script, pc, exc, propagating, trace, kbd, qMark, simChan, loadChan,
          simulator_socket, load_instrument, v_set, i_set, i, voltage_step,
          readback_current_str, v_meas, i_meas, p_meas, v_meas_str,
          i_meas_str, p_meas_str, error_string, load_status, reply, axis>>

fixed == <<script, axis>>

handles == <<simChan, loadChan, simulator_socket, load_instrument>>
loopvars == <<v_set, i_set, i, voltage_step>>
strs == <<v_meas_str, i_meas_str, p_meas_str>>
stored == <<readback_current_str, v_meas, i_meas, p_meas, strs, error_string,
           load_status>>
answers == <<stored, reply>>
checks == <<error_string, load_status>>
input == <<kbd, qMark>>

Ev(dev, cmd, arg, ok) == <<dev, cmd, arg, ok>>

Log(dev, cmd, arg, ok) == trace' = Append(trace, Ev(dev, cmd, arg, ok))

\* a Control_Both that enables the simulator's output before it connects
FirstPc_OutputFirst(sc) ==
    CASE sc = "both" -> "b_output_on"
      [] sc = "load" -> "l_open"
      [] sc = "nhr"  -> "n_connect"

\* the first statement of each script's try block
FirstPc(sc) ==
    CASE sc = "both" -> "b_connect_sim"
      [] sc = "load" -> "l_open"
      [] sc = "nhr"  -> "n_connect"

\* the statements of a finally block: an exception raised there escapes
FinallyPcs ==
    {"b_finally", "b_fin_v0", "b_fin_off", "b_fin_close", "b_fin_mid",
     "b_fin_lo_off", "b_fin_lo_cur0", "b_fin_lo_rst", "b_fin_lo_close",
     "b_fin_end",
     "l_finally", "l_fin_off", "l_fin_cur0", "l_fin_rst", "l_fin_close",
     "l_fin_end"}

\* the statements of the except clauses, and the exit of the with block of
\* NHR_control_test: an exception raised there is not caught
ExceptPcs ==
    {"b_except", "b_except_end", "l_except", "l_except_end", "n_except",
     "n_except_end", "n_with_exit"}

EndPcs == {"done", "crashed"}

\* the statements inside a try block
InTry == pc \notin FinallyPcs \cup ExceptPcs \cup EndPcs

\* where an exception e raised at pc is handled: an exception raised in a
\* finally block escapes; one raised in an except clause is not caught, the
\* finally block runs before it escapes
Handler(e) ==
    IF pc \in FinallyPcs THEN "crashed"
    ELSE IF pc \in ExceptPcs
         THEN CASE script = "both" -> "b_finally"
                [] script = "load" -> "l_finally"
                [] script = "nhr"  -> "crashed"
    ELSE CASE script = "both" -> "b_except"
           [] script = "load" ->
                IF e = "KeyboardInterrupt" THEN "l_finally" ELSE "l_except"
           [] script = "nhr" ->
                IF pc # "n_connect" THEN "n_with_exit"
                ELSE IF e = "KeyboardInterrupt" THEN "crashed" ELSE "n_except"

\* a failure after which the failing statement is tried again
Raise_Retry(e) == exc' = e /\ propagating' = TRUE /\ pc' = pc /\ qMark' = 0

\* raise e: control passes to the handler of the enclosing try; the sweep is
\* over, and with it the abort request that was followed
Raise(e) == exc' = e /\ propagating' = TRUE /\ pc' = Handler(e) /\ qMark' = 0

\* a step that raises nothing
NoRaise == exc' = exc /\ propagating' = propagating /\ qMark' = qMark

\* how the script ends after its cleanup: an exception no except clause
\* caught is raised again
EndPc == IF propagating THEN "crashed" ELSE "done"

NoAxis == [kind |-> "none"]

Idle ==
    /\ exc = "none"
    /\ propagating = FALSE
    /\ trace = <<>>
    /\ kbd = <<>>
    /\ qMark = 0
    /\ simChan = "none"
    /\ loadChan = "none"
    /\ simulator_socket = "None"
    /\ load_instrument = "None"
    /\ v_set = Unbound
    /\ i_set = Unset
    /\ i = Unbound
    /\ voltage_step = Unbound
    /\ readback_current_str = NoText
    /\ v_meas = Unset
    /\ i_meas = Unset
    /\ p_meas = Unset
    /\ v_meas_str = NoText
    /\ i_meas_str = NoText
    /\ p_meas_str = NoText
    /\ error_string = NoError
    /\ load_status = NoStatus
    /\ reply = NoReply

Init ==
    /\ script \in {"both", "load", "nhr"}
    /\ pc = FirstPc(script)
    /\ axis = NoAxis
    /\ Idle

(***************************************************************************)
(* The plain commands: what statement p sends, to which instrument, and    *)
(* the statement that follows it.                                          *)
(***************************************************************************)
St(dev, cmd, arg, next) == [dev |-> dev, cmd |-> cmd, arg |-> arg, next |-> next]

\* an int as the float Python compares it with
DInt(n) == FloatOfTenths(10 * n)

BothWrites ==
    {"b_sim_nsel", "b_sim_curr", "b_sim_pow", "b_load_clear", "b_load_rst",
     "b_load_cls", "b_load_mode", "b_load_cf", "b_load_pf", "b_peak", "b_curr",
     "b_load_on"}

BothFinallyWrites ==
    {"b_fin_v0", "b_fin_off", "b_fin_lo_off", "b_fin_lo_cur0", "b_fin_lo_rst"}

BothStep(p) ==
    CASE p = "b_sim_nsel"    -> St("sim", "INSTrument:NSELect", 3, "b_sim_curr")
      [] p = "b_sim_curr"    -> St("sim", "SOURce:CURRent", 20, "b_sim_pow")
      [] p = "b_sim_pow"     -> St("sim", "SOURce:POWer", 2500, "b_sim_safety")
      [] p = "b_load_clear"  -> St("load", "clear", 0, "b_load_rst")
      [] p = "b_load_rst"    -> St("load", "*RST", 0, "b_load_cls")
      [] p = "b_load_cls"    -> St("load", "*CLS", 0, "b_load_mode")
      [] p = "b_load_mode"   -> St("load", "MODE ACF", 0, "b_load_cf")
      [] p = "b_load_cf"     -> St("load", "CFACTor 1.414", 0, "b_load_pf")
      [] p = "b_load_pf"     -> St("load", "PFACtor 1.0", 0, "b_load_err")
      [] p = "b_peak"        -> St("load", "CURRent:PEAK:MAXimum:AC",
                                   PeakLimit(i_set), "b_curr")
      [] p = "b_curr"        -> St("load", "CURR", i_set, "b_load_on")
      [] p = "b_load_on"     -> St("load", "LOAD ON", 0, "b_readback")

\* a cleanup that zeroes the load's current before it turns the load off
BothFinallyStep_BaselineFirst(p) ==
    CASE p = "b_fin_v0"      -> St("sim", "VOLTage", 0, "b_fin_off")
      [] p = "b_fin_off"     -> St("sim", "OUTPut OFF", 0, "b_fin_close")
      [] p = "b_fin_lo_off"  -> St("load", "CURRent 0", 0, "b_fin_lo_cur0")
      [] p = "b_fin_lo_cur0" -> St("load", "LOAD OFF", 0, "b_fin_lo_rst")
      [] p = "b_fin_lo_rst"  -> St("load", "*RST", 0, "b_fin_lo_close")

\* the writes of the finally block of Control_Both
BothFinallyStep(p) ==
    CASE p = "b_fin_v0"      -> St("sim", "VOLTage", 0, "b_fin_off")
      [] p = "b_fin_off"     -> St("sim", "OUTPut OFF", 0, "b_fin_close")
      [] p = "b_fin_lo_off"  -> St("load", "LOAD OFF", 0, "b_fin_lo_cur0")
      [] p = "b_fin_lo_cur0" -> St("load", "CURRent 0", 0, "b_fin_lo_rst")
      [] p = "b_fin_lo_rst"  -> St("load", "*RST", 0, "b_fin_lo_close")

LoadWrites ==
    {"l_clear", "l_rst", "l_cls", "l_mode", "l_cf", "l_pf", "l_peak",
     "l_load_on", "l_curr", "l_load_on2", "l_fin_off", "l_fin_cur0",
     "l_fin_rst"}

LoadStep(p) ==
    CASE p = "l_clear"    -> St("load", "clear", 0, "l_rst")
      [] p = "l_rst"      -> St("load", "*RST", 0, "l_cls")
      [] p = "l_cls"      -> St("load", "*CLS", 0, "l_mode")
      [] p = "l_mode"     -> St("load", "MODE ACF", 0, "l_cf")
      [] p = "l_cf"       -> St("load", "CFACTor 1.414", 0, "l_pf")
      [] p = "l_pf"       -> St("load", "PFACtor 1.0", 0, "l_peak")
      [] p = "l_peak"     -> St("load", "CURR:PEAK:MAX:AC", FloatOfTenths(150),
                                "l_err")
      [] p = "l_load_on"  -> St("load", "LOAD ON", 0, "l_status")
      [] p = "l_curr"     -> St("load", "CURR", DInt(i), "l_load_on2")
      [] p = "l_load_on2" -> St("load", "LOAD ON", 0, "l_readback")
      [] p = "l_fin_off"  -> St("load", "LOAD OFF", 0, "l_fin_cur0")
      [] p = "l_fin_cur0" -> St("load", "CURRent 0", 0, "l_fin_rst")
      [] p = "l_fin_rst"  -> St("load", "*RST", 0, "l_fin_close")

NhrWrites == {"n_nsel", "n_vset", "n_v0", "n_off"}

NhrStep(p) ==
    CASE p = "n_nsel" -> St("sim", "INSTrument:NSELect", 3, "n_output_on")
      [] p = "n_vset" -> St("sim", "VOLTage", voltage_step, "n_measure")
      [] p = "n_v0"   -> St("sim", "VOLTage", 0, "n_off")
      [] p = "n_off"  -> St("sim", "OUTPut OFF", 0, "n_body_end")

Writes == BothWrites \cup BothFinallyWrites \cup LoadWrites \cup NhrWrites

Step(p) ==
    IF p \in BothWrites THEN BothStep(p)
    ELSE IF p \in BothFinallyWrites THEN BothFinallyStep(p)
    ELSE IF p \in LoadWrites THEN LoadStep(p)
    ELSE NhrStep(p)

\* sock.sendall(...) / inst.write(...): sent, or a transport error is raised
Write ==
    /\ pc \in Writes
    /\ \E ok \in BOOLEAN :
         /\ Log(Step(pc).dev, Step(pc).cmd, Step(pc).arg, ok)
         /\ IF ok THEN pc' = Step(pc).next /\ NoRaise
                  ELSE Raise("TransportError")
    /\ UNCHANGED <<fixed, handles, loopvars, answers, kbd>>

\* socket.create_connection(...) / rm.open_resource(...)
OpenChannel ==
    /\ pc \in {"b_connect_sim", "b_open_load", "l_open", "n_connect"}
    /\ \E ok \in BOOLEAN :
         LET dev == IF pc \in {"b_open_load", "l_open"} THEN "load" ELSE "sim"
         IN  /\ Log(dev, "connect", 0, ok)
             /\ IF ok
                THEN /\ pc' = CASE pc = "b_connect_sim" -> "b_sim_nsel"
                                [] pc = "b_open_load"   -> "b_load_clear"
                                [] pc = "l_open"        -> "l_clear"
                                [] pc = "n_connect"     -> "n_nsel"
                     /\ NoRaise
                     /\ simChan' = IF dev = "sim" THEN "open" ELSE simChan
                     /\ loadChan' = IF dev = "load" THEN "open" ELSE loadChan
                ELSE /\ Raise("TransportError")
                     /\ UNCHANGED <<simChan, loadChan>>
    /\ UNCHANGED <<fixed, simulator_socket, load_instrument, loopvars,
                   answers, kbd>>

\* print_safety_limits(s): the query; its answer is printed whatever it is
SafetyQuery ==
    /\ pc = "b_sim_safety"
    /\ \E ok \in BOOLEAN :
         /\ Log("sim", "SOURce:SAFety?", 0, ok)
         /\ IF ok THEN pc' = "b_sim_return" /\ NoRaise
                  ELSE Raise("TransportError")
    /\ UNCHANGED <<fixed, handles, loopvars, answers, kbd>>

\* a check that lets every answer starting with "0" pass
SetupError_ZeroPrefix(text) == text[1] # "0"

\* error_string not in ["0", "OK"] and not error_string.startswith("0,")
SetupError(text) ==
    /\ text \notin {<<"0">>, <<"O", "K">>}
    /\ ~(Len(text) >= 2 /\ text[1] = "0" /\ text[2] = ",")

\* inst.query(cmd): the answer is returned to the statement at next, or a
\* transport error is raised
Query(cmd, answer, ok, next) ==
    /\ Log("load", cmd, 0, ok)
    /\ IF ok THEN reply' = answer /\ pc' = next /\ NoRaise
             ELSE reply' = reply /\ Raise("TransportError")

\* inst.query("SYSTem:ERRor?")
ErrQuery ==
    /\ pc \in {"b_load_err", "l_err"}
    /\ \E ok \in BOOLEAN, answer \in ErrAnswers :
         Query("SYSTem:ERRor?", answer, ok,
               IF pc = "b_load_err" THEN "b_load_err_set" ELSE "l_err_set")
    /\ UNCHANGED <<fixed, handles, loopvars, stored, kbd>>

\* error_string = <the answer>.strip()
ErrAssign ==
    /\ pc \in {"b_load_err_set", "l_err_set"}
    /\ error_string' = reply
    /\ reply' = NoReply
    /\ pc' = (IF pc = "b_load_err_set" THEN "b_load_err_chk" ELSE "l_err_chk")
    /\ NoRaise
    /\ UNCHANGED <<fixed, trace, handles, loopvars, readback_current_str,
                   v_meas, i_meas, p_meas, strs, load_status, kbd>>

\* if error_string not in [...] and not ...: raise Exception(...)
ErrCheck ==
    /\ pc \in {"b_load_err_chk", "l_err_chk"}
    /\ IF SetupError(error_string) THEN Raise("SetupError")
       ELSE /\ pc' = (IF pc = "b_load_err_chk" THEN "b_load_idn" ELSE "l_idn")
            /\ NoRaise
    /\ UNCHANGED <<fixed, trace, handles, loopvars, answers, kbd>>

\* identity = inst.query("*IDN?").strip()
IdnQuery ==
    /\ pc \in {"b_load_idn", "l_idn"}
    /\ \E ok \in BOOLEAN :
         /\ Log("load", "*IDN?", 0, ok)
         /\ IF ok
            THEN /\ pc' = (IF pc = "b_load_idn" THEN "b_load_return"
                                                 ELSE "l_return")
                 /\ NoRaise
            ELSE Raise("TransportError")
    /\ UNCHANGED <<fixed, handles, loopvars, answers, kbd>>

\* the last print of a connect function, its return, and the assignment of
\* the handle it returns (error_string is a local of the function)
ConnectReturn ==
    /\ pc \in {"b_sim_return", "b_load_return", "l_return"}
    /\ pc' = CASE pc = "b_sim_return"  -> "b_open_load"
               [] pc = "b_load_return" -> "b_output_on"
               [] pc = "l_return"      -> "l_for"
    /\ simulator_socket' = IF pc = "b_sim_return" THEN "sock"
                           ELSE simulator_socket
    /\ load_instrument' = IF pc = "b_sim_return" THEN load_instrument
                          ELSE "inst"
    /\ error_string' = NoError
    /\ NoRaise
    /\ UNCHANGED <<fixed, trace, simChan, loadChan, loopvars,
                   readback_current_str, v_meas, i_meas, p_meas, strs,
                   load_status, reply, kbd>>

\* 'OUTPut ON'; the script then sleeps before its loop starts
OutputOn ==
    /\ pc \in {"b_output_on", "n_output_on"}
    /\ \E ok \in BOOLEAN :
         /\ Log("sim", "OUTPut ON", 0, ok)
         /\ IF ~ok THEN Raise("TransportError")
            ELSE /\ NoRaise
                 /\ pc' = (IF script = "both" THEN "b_for" ELSE "n_for")
    /\ UNCHANGED <<fixed, handles, loopvars, answers, kbd>>

\* the statements at which a for loop takes its first value, and its next
ForFirstPcs == {"b_for", "l_for", "n_for"}
ForNextPcs == {"b_next_v", "l_next", "n_next"}

\* the value a for loop over range(start, stop, step) takes at pc
RangeValue(cur, start, step) == IF pc \in ForFirstPcs THEN start ELSE cur + step

\* for v_set in v_range / for i in range(int(ISET_A) + 1) /
\* for voltage_step in range(30, 151, 10): the next value, or the end of the
\* loop (the loop variable keeps its last value)
ForNext ==
    /\ pc \in ForFirstPcs \cup ForNextPcs
    /\ CASE script = "both" ->
              LET v == RangeValue(v_set, VOLTAGE_START_V, VOLTAGE_STEP_V)
              IN  /\ IF InRange(v, VOLTAGE_STOP_V + 1)
                     THEN v_set' = v /\ pc' = "b_vset"
                     ELSE v_set' = v_set /\ pc' = "b_completed"
                  /\ UNCHANGED <<i, voltage_step>>
         [] script = "load" ->
              LET n == RangeValue(i, 0, 1)
              IN  /\ IF InRange(n, ISET_A + 1)
                     THEN i' = n /\ pc' = "l_load_on"
                     ELSE i' = i /\ pc' = "l_complete"
                  /\ UNCHANGED <<v_set, voltage_step>>
         [] script = "nhr" ->
              LET v == RangeValue(voltage_step, NHR_START_V, NHR_STEP_V)
              IN  /\ IF InRange(v, NHR_STOP_V)
                     THEN voltage_step' = v /\ pc' = "n_vset"
                     ELSE voltage_step' = voltage_step /\ pc' = "n_v0"
                  /\ UNCHANGED <<v_set, i>>
    /\ NoRaise
    /\ UNCHANGED <<fixed, trace, handles, i_set, answers, kbd>>

\* Control_Both: 'VOLTage <v_set>'; the script then sleeps
VoltageSet ==
    /\ pc = "b_vset"
    /\ \E ok \in BOOLEAN :
         /\ Log("sim", "VOLTage", v_set, ok)
         /\ IF ~ok THEN Raise("TransportError")
            ELSE NoRaise /\ pc' = "b_iset"
    /\ UNCHANGED <<fixed, handles, loopvars, answers, kbd>>

\* while i_set <= CURRENT_STOP_A, with the accumulator at a: into the body,
\* or on to the next voltage
WhileTarget(a) == IF WhileCond(a, CURRENT_STOP_A) THEN "b_poll" ELSE "b_next_v"

\* i_set = CURRENT_START_A, and the first test of the while loop
InnerInit ==
    /\ pc = "b_iset"
    /\ i_set' = CURRENT_START_A
    /\ pc' = WhileTarget(CURRENT_START_A)
    /\ NoRaise
    /\ UNCHANGED <<fixed, trace, handles, v_set, i, voltage_step, answers, kbd>>

\* i_set += CURRENT_STEP_A, the sleep, and the test of the while loop
Advance ==
    /\ pc = "b_inc"
    /\ i_set' = DAdd(i_set, CURRENT_STEP_A)
    /\ pc' = WhileTarget(DAdd(i_set, CURRENT_STEP_A))
    /\ NoRaise
    /\ UNCHANGED <<fixed, trace, handles, v_set, i, voltage_step, answers, kbd>>

\* <key>.decode().lower() == 'q'
IsAbortKey(key) == key \in {"q", "Q"}

\* if msvcrt.kbhit() and msvcrt.getch()...: no key is waiting, or the first
\* key waiting is read
Poll ==
    /\ pc = "b_poll"
    /\ IF kbd = <<>>
       THEN pc' = "b_peak" /\ kbd' = kbd /\ reply' = reply
       ELSE pc' = "b_poll_key" /\ kbd' = Tail(kbd) /\ reply' = <<Head(kbd)>>
    /\ NoRaise
    /\ UNCHANGED <<fixed, trace, handles, loopvars, stored>>

\* <the key read>.decode().lower() == 'q': decode() raises on the first byte
\* of an arrow key; any key but 'q' is dropped and the point starts
PollKey ==
    /\ pc = "b_poll_key"
    /\ reply' = NoReply
    /\ IF reply[1] = "E0" THEN Raise("UnicodeDecodeError")
       ELSE /\ pc' = (IF IsAbortKey(reply[1]) THEN "b_hard_stop" ELSE "b_peak")
            /\ NoRaise
    /\ UNCHANGED <<fixed, trace, handles, loopvars, stored, kbd>>

\* print("Hard stop requested by user!"); raise KeyboardInterrupt
StopRequested ==
    /\ pc = "b_hard_stop"
    /\ Log("out", "hard stop", 0, TRUE)
    /\ Raise("KeyboardInterrupt")
    /\ UNCHANGED <<fixed, handles, loopvars, answers, kbd>>

\* the decimal text t/10 that reads as the double x
TenthsOf(x) ==
    CHOOSE t \in 0..(10 * ISET_A + ReadbackSpread) : FloatOfTenths(t) = x

\* answers to 'CURRent?' around the setpoint x, and a text that is no number
ReadbackAnswers(x) ==
    {<<"num", t>> : t \in {u \in 0..(10 * ISET_A + ReadbackSpread) :
                             /\ u >= TenthsOf(x) - ReadbackSpread
                             /\ u <= TenthsOf(x) + ReadbackSpread}}
    \cup {BadText}

\* the setpoint the read-back is compared with
Setpoint == IF script = "both" THEN i_set ELSE DInt(i)

\* load_instrument.query("CURRent?")
Readback ==
    /\ pc \in {"b_readback", "l_readback"}
    /\ \E ok \in BOOLEAN, text \in ReadbackAnswers(Setpoint) :
         Query("CURRent?", text, ok,
               IF script = "both" THEN "b_readback_set" ELSE "l_readback_set")
    /\ UNCHANGED <<fixed, handles, loopvars, stored, kbd>>

\* readback_current_str = <the answer>.strip()
ReadbackAssign ==
    /\ pc \in {"b_readback_set", "l_readback_set"}
    /\ readback_current_str' = reply
    /\ reply' = NoReply
    /\ pc' = (IF script = "both" THEN "b_readback_float" ELSE "l_readback_float")
    /\ NoRaise
    /\ UNCHANGED <<fixed, trace, handles, loopvars, v_meas, i_meas, p_meas,
                   strs, checks, kbd>>

\* readback_current = float(readback_current_str)
ReadbackFloat ==
    /\ pc \in {"b_readback_float", "l_readback_float"}
    /\ IF ~IsNumber(readback_current_str) THEN Raise("ValueError")
       ELSE /\ pc' = (IF script = "both" THEN "b_readback_chk" ELSE "l_readback_chk")
            /\ NoRaise
    /\ UNCHANGED <<fixed, trace, handles, loopvars, answers, kbd>>

\* if abs(readback_current - i_set) > 0.1: raise Exception(...)
ReadbackCheck ==
    /\ pc \in {"b_readback_chk", "l_readback_chk"}
    /\ IF OutOfTolerance(Float(readback_current_str), Setpoint)
       THEN Raise("VerificationError")
       ELSE /\ pc' = (IF script = "both" THEN "b_meas_v" ELSE "l_meas_v")
            /\ NoRaise
    /\ UNCHANGED <<fixed, trace, handles, loopvars, answers, kbd>>

\* a status that is printed and not checked
StatusCheck_NotChecked ==
    /\ pc = "l_status_chk"
    /\ pc' = "l_curr"
    /\ NoRaise
    /\ UNCHANGED <<fixed, trace, handles, loopvars, answers, kbd>>

\* Control Load: load_instrument.query("LOAD:STATus?")
StatusQuery ==
    /\ pc = "l_status"
    /\ \E ok \in BOOLEAN, answer \in StatusAnswers :
         Query("LOAD:STATus?", <<answer>>, ok, "l_status_set")
    /\ UNCHANGED <<fixed, handles, loopvars, stored, kbd>>

\* load_status = <the answer>.strip()
StatusAssign ==
    /\ pc = "l_status_set"
    /\ load_status' = reply[1]
    /\ reply' = NoReply
    /\ pc' = "l_status_chk"
    /\ NoRaise
    /\ UNCHANGED <<fixed, trace, handles, loopvars, readback_current_str,
                   v_meas, i_meas, p_meas, strs, error_string, kbd>>

\* the status is printed; if load_status not in ["1", "OK"]: raise
StatusCheck ==
    /\ pc = "l_status_chk"
    /\ IF load_status \notin {"1", "OK"} THEN Raise("LoadOnError")
       ELSE pc' = "l_curr" /\ NoRaise
    /\ UNCHANGED <<fixed, trace, handles, loopvars, answers, kbd>>

MeasurePcs ==
    {"b_meas_v", "b_meas_i", "b_meas_p", "l_meas_v", "l_meas_i", "l_meas_p"}

MeasureCmd(p) ==
    CASE p \in {"b_meas_v", "l_meas_v"} -> "MEASure:VOLTage?"
      [] p \in {"b_meas_i", "l_meas_i"} -> "MEASure:CURRent?"
      [] p \in {"b_meas_p", "l_meas_p"} -> "MEASure:POWer?"

\* measurement queries in the order voltage, power, current
MeasureNext_PowerSecond(p) ==
    CASE p = "b_meas_v" -> "b_meas_p"
      [] p = "b_meas_p" -> "b_meas_i"
      [] p = "b_meas_i" -> "b_record"
      [] p = "l_meas_v" -> "l_meas_p"
      [] p = "l_meas_p" -> "l_meas_i"
      [] p = "l_meas_i" -> "l_parse_v"

\* the statement after the measurement query at p
MeasureNext(p) ==
    CASE p = "b_meas_v" -> "b_meas_i"
      [] p = "b_meas_i" -> "b_meas_p"
      [] p = "b_meas_p" -> "b_record"
      [] p = "l_meas_v" -> "l_meas_i"
      [] p = "l_meas_i" -> "l_meas_p"
      [] p = "l_meas_p" -> "l_parse_v"

\* the statement that assigns the answer to the query at p, and the query
\* whose answer the statement at p assigns
MeasureAssignPc(p) ==
    CASE p = "b_meas_v" -> "b_meas_v_set"
      [] p = "b_meas_i" -> "b_meas_i_set"
      [] p = "b_meas_p" -> "b_meas_p_set"
      [] p = "l_meas_v" -> "l_meas_v_set"
      [] p = "l_meas_i" -> "l_meas_i_set"
      [] p = "l_meas_p" -> "l_meas_p_set"

MeasureAssignPcs == {MeasureAssignPc(p) : p \in MeasurePcs}

MeasureOf(p) == CHOOSE q \in MeasurePcs : MeasureAssignPc(q) = p

\* the value of variable x after the answer to the query cmd is assigned at
\* pc: Control_Both parses the answer at once, Control Load keeps its text
Measured(cmd, x) ==
    IF script = "both" /\ MeasureCmd(MeasureOf(pc)) = cmd
    THEN parse_float(reply) ELSE x

Kept(cmd, x) ==
    IF script = "load" /\ MeasureCmd(MeasureOf(pc)) = cmd THEN reply ELSE x

\* load_instrument.query("MEASure:...?")
Measure ==
    /\ pc \in MeasurePcs
    /\ \E ok \in BOOLEAN, text \in MeasAnswers :
         Query(MeasureCmd(pc), text, ok, MeasureAssignPc(pc))
    /\ UNCHANGED <<fixed, handles, loopvars, stored, kbd>>

\* Control_Both: x_meas = parse_float(<the answer>.strip())
\* Control Load: x_meas_str = <the answer>.strip()
MeasureAssign ==
    /\ pc \in MeasureAssignPcs
    /\ pc' = MeasureNext(MeasureOf(pc))
    /\ NoRaise
    /\ v_meas' = Measured("MEASure:VOLTage?", v_meas)
    /\ i_meas' = Measured("MEASure:CURRent?", i_meas)
    /\ p_meas' = Measured("MEASure:POWer?", p_meas)
    /\ v_meas_str' = Kept("MEASure:VOLTage?", v_meas_str)
    /\ i_meas_str' = Kept("MEASure:CURRent?", i_meas_str)
    /\ p_meas_str' = Kept("MEASure:POWer?", p_meas_str)
    /\ reply' = NoReply
    /\ UNCHANGED <<fixed, trace, handles, loopvars, readback_current_str,
                   checks, kbd>>

\* Control Load: v_meas = parse_float(v_meas_str); i_meas = ...; p_meas = ...:
\* three statements
Parse ==
    /\ pc \in {"l_parse_v", "l_parse_i", "l_parse_p"}
    /\ v_meas' = IF pc = "l_parse_v" THEN parse_float(v_meas_str) ELSE v_meas
    /\ i_meas' = IF pc = "l_parse_i" THEN parse_float(i_meas_str) ELSE i_meas
    /\ p_meas' = IF pc = "l_parse_p" THEN parse_float(p_meas_str) ELSE p_meas
    /\ pc' = CASE pc = "l_parse_v" -> "l_parse_i"
               [] pc = "l_parse_i" -> "l_parse_p"
               [] pc = "l_parse_p" -> "l_record"
    /\ NoRaise
    /\ UNCHANGED <<fixed, trace, handles, loopvars, readback_current_str,
                   strs, checks, reply, kbd>>

\* the result line of a point is printed
Record ==
    /\ pc \in {"b_record", "l_record"}
    /\ NoRaise
    /\ IF script = "both"
       THEN Log("out", "record", <<v_set, i_set>>, TRUE) /\ pc' = "b_inc"
       ELSE Log("out", "readings", i, TRUE) /\ pc' = "l_next"
    /\ UNCHANGED <<fixed, handles, loopvars, answers, kbd>>

\* NHR_control_test: float(send_query(s, "MEASure:VOLTage?")) is printed
NhrMeasure ==
    /\ pc = "n_measure"
    /\ \E ok \in BOOLEAN, actual_voltage_str \in MeasAnswers :
         /\ Log("sim", "MEASure:VOLTage?", 0, ok)
         /\ IF ~ok THEN Raise("TransportError")
            ELSE IF ~IsNumber(actual_voltage_str) THEN Raise("ValueError")
            ELSE NoRaise /\ pc' = "n_next"
    /\ UNCHANGED <<fixed, handles, loopvars, answers, kbd>>

\* Control_Both: print("--- Sweep Completed Successfully ---"), the last
\* statement of the try block
Completed ==
    /\ pc = "b_completed"
    /\ Log("out", "completed", 0, TRUE)
    /\ pc' = "b_try_end"
    /\ UNCHANGED <<fixed, exc, propagating, handles, loopvars, answers, input>>

\* the end of the try body of Control_Both, and of the with body of
\* NHR_control_test after its last print
BodyEnd ==
    /\ pc \in {"b_try_end", "n_body_end"}
    /\ pc' = IF pc = "b_try_end" THEN "b_finally" ELSE "n_with_exit"
    /\ UNCHANGED <<fixed, exc, propagating, trace, handles, loopvars, answers,
                   input>>

\* Control Load: print("Loop Complete")
LoopComplete ==
    /\ pc = "l_complete"
    /\ Log("out", "completed", 0, TRUE)
    /\ pc' = "l_input"
    /\ NoRaise
    /\ UNCHANGED <<fixed, handles, loopvars, answers, kbd>>

\* Control Load: input(...) waits for Enter; it raises EOFError when the
\* console is closed
Input ==
    /\ pc = "l_input"
    /\ \E eof \in BOOLEAN :
         IF eof THEN Raise("EOFError") ELSE pc' = "l_finally" /\ NoRaise
    /\ UNCHANGED <<fixed, trace, handles, loopvars, answers, kbd>>

\* the except clauses: the exception is caught, and its message printed
Except ==
    /\ pc \in {"b_except", "l_except", "n_except"}
    /\ Log("out", IF exc = "KeyboardInterrupt" THEN "interrupted" ELSE "error",
           0, TRUE)
    /\ pc' = CASE pc = "b_except" -> "b_except_end"
               [] pc = "l_except" -> "l_except_end"
               [] pc = "n_except" -> "n_except_end"
    /\ propagating' = FALSE
    /\ UNCHANGED <<fixed, exc, handles, loopvars, answers, input>>

\* the end of an except clause
ExceptEnd ==
    /\ pc \in {"b_except_end", "l_except_end", "n_except_end"}
    /\ pc' = CASE pc = "b_except_end" -> "b_finally"
               [] pc = "l_except_end" -> "l_finally"
               [] pc = "n_except_end" -> "done"
    /\ UNCHANGED <<fixed, exc, propagating, trace, handles, loopvars, answers,
                   input>>

\* NHR_control_test: leaving the with block closes the socket
WithExit ==
    /\ pc = "n_with_exit"
    /\ Log("sim", "close", 0, TRUE)
    /\ simChan' = "closed"
    /\ pc' = IF exc = "none" THEN "done"
             ELSE IF exc = "KeyboardInterrupt" THEN "crashed" ELSE "n_except"
    /\ UNCHANGED <<fixed, exc, propagating, loadChan, simulator_socket, load_instrument,
                   loopvars, answers, input>>

\* the finally blocks: if simulator_socket: ... if load_instrument: ...
AfterSim == IF load_instrument # "None" THEN "b_fin_lo_off" ELSE EndPc

Finally ==
    /\ pc \in {"b_finally", "l_finally"}
    /\ pc' = IF script = "both"
             THEN (IF simulator_socket # "None" THEN "b_fin_v0" ELSE AfterSim)
             ELSE (IF load_instrument # "None" THEN "l_fin_off" ELSE EndPc)
    /\ UNCHANGED <<fixed, exc, propagating, trace, handles, loopvars,
                   answers, input>>

\* simulator_socket.close() / load_instrument.close()
CloseChannel ==
    /\ pc \in {"b_fin_close", "b_fin_lo_close", "l_fin_close"}
    /\ IF pc = "b_fin_close"
       THEN /\ Log("sim", "close", 0, TRUE)
            /\ simChan' = "closed"
            /\ pc' = "b_fin_mid"
            /\ UNCHANGED loadChan
       ELSE /\ Log("load", "close", 0, TRUE)
            /\ loadChan' = "closed"
            /\ pc' = IF pc = "b_fin_lo_close" THEN "b_fin_end" ELSE "l_fin_end"
            /\ UNCHANGED simChan
    /\ UNCHANGED <<fixed, exc, propagating, simulator_socket, load_instrument, loopvars,
                   answers, input>>

\* the print after a close: after the simulator's the finally block goes on
\* with the load, after the load's it ends
FinallyPrint ==
    /\ pc \in {"b_fin_mid", "b_fin_end", "l_fin_end"}
    /\ pc' = IF pc = "b_fin_mid" THEN AfterSim ELSE EndPc
    /\ UNCHANGED <<fixed, exc, propagating, trace, handles, loopvars, answers,
                   input>>



\* the statements between the record of a point and the poll of the next
BetweenPoints == {"b_inc", "b_next_v", "b_vset", "b_iset", "b_poll"}

\* the statements of a point after its first setpoint command, the limit
\* of the peak current
DuringPoint ==
    {"b_curr", "b_load_on", "b_readback", "b_readback_set", "b_readback_float",
     "b_readback_chk", "b_meas_v", "b_meas_v_set", "b_meas_i", "b_meas_i_set",
     "b_meas_p", "b_meas_p_set", "b_record"}

\* the keys that end the sweep at the poll that reads them: 'q' by the hard
\* stop, the first byte of an arrow key by the exception of decode()
EndsSweep(key) == IsAbortKey(key) \/ key = "E0"

\* the operator presses a key while Control_Both is in its try block; a key
\* pressed behind an unread key that ends the sweep would never be read, and
\* is left out
KeyPress ==
    /\ script = "both"
    /\ InTry
    /\ Len(kbd) < MaxKeys
    /\ \A n \in 1..Len(kbd) : ~EndsSweep(kbd[n])
    /\ \E k \in Keys :
         /\ kbd' = Append(kbd, k)
         /\ qMark' = IF k = "q" /\ qMark = 0
                        /\ pc \in BetweenPoints \cup DuringPoint
                     THEN Len(trace) + 1 ELSE qMark
    /\ UNCHANGED <<fixed, pc, exc, propagating, trace, handles, loopvars,
                   answers>>

\* Ctrl+C while a script runs: at any statement of its try block, of an
\* except clause or of its finally block, the prints included, and between
\* a call and the assignment or the comparison of what it returned, which
\* is then lost
CtrlC ==
    /\ pc \notin EndPcs
    /\ Raise("KeyboardInterrupt")
    /\ reply' = NoReply
    /\ UNCHANGED <<fixed, trace, handles, loopvars, stored, kbd>>

Next ==
    \/ Write
    \/ OpenChannel
    \/ SafetyQuery
    \/ ErrQuery
    \/ ErrAssign
    \/ ErrCheck
    \/ IdnQuery
    \/ ConnectReturn
    \/ OutputOn
    \/ ForNext
    \/ VoltageSet
    \/ InnerInit
    \/ Advance
    \/ Poll
    \/ PollKey
    \/ StopRequested
    \/ Readback
    \/ ReadbackAssign
    \/ ReadbackFloat
    \/ ReadbackCheck
    \/ StatusQuery
    \/ StatusAssign
    \/ StatusCheck
    \/ Measure
    \/ MeasureAssign
    \/ Parse
    \/ Record
    \/ NhrMeasure
    \/ Completed
    \/ BodyEnd
    \/ LoopComplete
    \/ Input
    \/ Except
    \/ ExceptEnd
    \/ WithExit
    \/ Finally
    \/ CloseChannel
    \/ FinallyPrint
    \/ KeyPress
    \/ CtrlC
Spec == Init /\ [][Next]_vars

(***************************************************************************)
(* The sweep loops run alone, on every configuration of a small set: the   *)
(* for loop over range(start, stop + 1, step) of the voltage axis, and the *)
(* while loop with the accumulator i_set += step of the current axis, its  *)
(* start, stop and step written as decimals with one digit (tenths).       *)
(***************************************************************************)
MaxAxis == 4

AxisConfigs ==
    {c \in [start : 0..MaxAxis, stop : 0..MaxAxis, step : 1..MaxAxis] :
       c.start <= c.stop}

InitAxis ==
    /\ script = "axis"
    /\ pc = "axis"
    /\ Idle
    /\ \E kind \in {"range", "while"}, c \in AxisConfigs :
         axis = [kind |-> kind, start |-> c.start, stop |-> c.stop,
                 step |-> c.step, visited |-> <<>>, done |-> FALSE,
                 val |-> IF kind = "range" THEN c.start
                         ELSE FloatOfTenths(c.start)]

\* for v_set in range(start, stop + 1, step): one iteration, or the end
RangeIter ==
    /\ axis.kind = "range"
    /\ ~axis.done
    /\ axis' = IF InRange(axis.val, axis.stop + 1)
               THEN [axis EXCEPT !.visited = Append(@, axis.val),
                                 !.val = @ + axis.step]
               ELSE [axis EXCEPT !.done = TRUE]
    /\ UNCHANGED <<script, pc, exc, propagating, trace, handles, loopvars, answers, input>>

\* while i_set <= stop: ...; i_set += step: one iteration, or the end
WhileIter ==
    /\ axis.kind = "while"
    /\ ~axis.done
    /\ axis' = IF WhileCond(axis.val, FloatOfTenths(axis.stop))
               THEN [axis EXCEPT !.visited = Append(@, axis.val),
                                 !.val = DAdd(@, FloatOfTenths(axis.step))]
               ELSE [axis EXCEPT !.done = TRUE]
    /\ UNCHANGED <<script, pc, exc, propagating, trace, handles, loopvars, answers, input>>

NextAxis == RangeIter \/ WhileIter

SpecAxis == InitAxis /\ [][NextAxis]_vars

(***************************************************************************)
(* Reading the trace                                                       *)
(***************************************************************************)
Idx == 1..Len(trace)

LastOf(t) == t[Len(t)]

IsDev(e) == e[1] \in {"sim", "load"}

IsRecord(e) == e[2] = "record"

\* the commands of a shutdown that drive an output down
IsSafeStep(e) ==
    \/ e[2] \in {"OUTPut OFF", "LOAD OFF", "CURRent 0"}
    \/ (e[2] = "VOLTage" /\ e[3] = 0)

IsShutdownCmd(e) == IsSafeStep(e) \/ e[2] \in {"*RST", "close"}

\* command cmd was sent to dev (and did not fail)
Sent(k, dev, cmd) == trace[k][1] = dev /\ trace[k][2] = cmd /\ trace[k][4]

Ended == pc \in EndPcs

\* the name of a cleanup step
StepName(e) == IF e[2] = "VOLTage" THEN "VOLTage 0" ELSE e[2]

\* where the cleanup of dev starts in the trace (0: it has not started)
CleanupFrom(dev) ==
    LET S == {k \in Idx : trace[k][1] = dev /\ IsSafeStep(trace[k])}
    IN  IF S = {} THEN 0 ELSE CHOOSE k \in S : \A j \in S : k <= j

\* the cleanup steps attempted on dev, in the order of their attempts
CleanupSeq(dev) ==
    LET from == CleanupFrom(dev)
    IN  IF from = 0 THEN <<>>
        ELSE LET IsOf(e) == e[1] = dev
                 steps   == SelectSeq(SubSeq(trace, from, Len(trace)), IsOf)
             IN  [k \in 1..Len(steps) |-> StepName(steps[k])]

IsPrefix(s, t) == Len(s) <= Len(t) /\ \A k \in 1..Len(s) : s[k] = t[k]

\* the number of result records before position k of the trace
RecordsBefore(k) == Cardinality({j \in 1..(k - 1) : IsRecord(trace[j])})

(***************************************************************************)
(* C1: in every script, whenever the run has ended and no shutdown command *)
(* failed, every output that was enabled (OUTPut ON, LOAD ON) has been     *)
(* disabled afterwards (OUTPut OFF, LOAD OFF).                             *)
(* NHR_control_test sends OUTPut OFF only at the end of its try body.      *)
(***************************************************************************)
NoShutdownFailure == \A k \in Idx : IsSafeStep(trace[k]) => trace[k][4]

DisabledAfter(on, off) ==
    \A dev \in {"sim", "load"} :
      \A k \in Idx : Sent(k, dev, on) =>
        \E l \in (k + 1)..Len(trace) : Sent(l, dev, off)

C1_OutputsDisabledAtEnd ==
    (Ended /\ NoShutdownFailure) =>
        /\ DisabledAfter("OUTPut ON", "OUTPut OFF")
        /\ DisabledAfter("LOAD ON", "LOAD OFF")

(***************************************************************************)
(* C2: cleanup is best-effort: when a script with a finally block has      *)
(* ended and a cleanup step has failed, every cleanup step of every        *)
(* connected instrument was attempted all the same.                        *)
(***************************************************************************)
SimCleanup == <<"VOLTage 0", "OUTPut OFF", "close">>
LoadCleanup == <<"LOAD OFF", "CURRent 0", "*RST", "close">>

C2_CleanupBestEffort ==
    (Ended /\ script \in {"both", "load"} /\ ~NoShutdownFailure) =>
        /\ simulator_socket # "None" => CleanupSeq("sim") = SimCleanup
        /\ load_instrument # "None" => CleanupSeq("load") = LoadCleanup

(***************************************************************************)
(* C3: the shutdown never raises: no run ends with an exception raised by  *)
(* a cleanup step (the only exceptions a cleanup step raises itself are    *)
(* transport errors, and a transport error of the try body is caught).     *)
(***************************************************************************)
C3_ShutdownNeverRaises == ~(pc = "crashed" /\ exc = "TransportError")

(***************************************************************************)
(* C4: in Control_Both every channel that was opened is closed when the    *)
(* run has ended, also when the instrument's setup failed after the        *)
(* channel was opened.                                                     *)
(***************************************************************************)
C4_OpenedChannelsClosed ==
    (Ended /\ script = "both") => simChan # "open" /\ loadChan # "open"

(***************************************************************************)
(* C5: when 'q' is pressed after a point has been completed and before the *)
(* next poll, every instrument command after the key press is a shutdown   *)
(* command: none is a command of a later combination.                      *)
(* The poll reads one key: with another key unread before 'q' it reads     *)
(* that key and the next combination is run; and after the last point of a *)
(* voltage row 'VOLTage <v>' of the next row is sent before the poll.      *)
(***************************************************************************)
\* the request that is followed was made between two points: the last event
\* before it is the record of a point, or the 'VOLTage <v>' of the next row
\* after such a record
AbortAfterPoint ==
    /\ qMark > 1
    /\ \/ IsRecord(trace[qMark - 1])
       \/ /\ qMark > 2
          /\ trace[qMark - 1][2] = "VOLTage"
          /\ IsRecord(trace[qMark - 2])

C5_AbortStopsAllSetpoints ==
    AbortAfterPoint =>
        \A k \in qMark..Len(trace) :
            IsDev(trace[k]) => IsShutdownCmd(trace[k])

(***************************************************************************)
(* C6 (under SpecAxis): for every configuration with start <= stop and     *)
(* step > 0, a finished sweep loop has run floor((stop - start)/step) + 1  *)
(* iterations, has visited start, start + step, ... in this order, and its *)
(* last setpoint is <= stop.                                               *)
(* The accumulator of the while loop adds rounded doubles: with start 0,   *)
(* stop 0.3, step 0.1 it reaches 0.30000000000000004 > 0.3 after three     *)
(* iterations.                                                             *)
(***************************************************************************)
\* the k-th setpoint of the axis, start + (k - 1) * step
AxisPoint(k) ==
    IF axis.kind = "range" THEN axis.start + (k - 1) * axis.step
    ELSE FloatOfTenths(axis.start + (k - 1) * axis.step)

C6_AxisIterations ==
    (script = "axis" /\ axis.done) =>
        /\ Len(axis.visited) = ((axis.stop - axis.start) \div axis.step) + 1
        /\ \A k \in 1..Len(axis.visited) : axis.visited[k] = AxisPoint(k)
        /\ IF axis.kind = "range"
           THEN axis.visited[Len(axis.visited)] <= axis.stop
           ELSE DLeq(axis.visited[Len(axis.visited)], FloatOfTenths(axis.stop))

(***************************************************************************)
(* C7: in Control_Both, a run with no failure and no abort prints 'Sweep   *)
(* Completed'; the result records are those of the 15 combinations of      *)
(* [100, 125, 150] V and [0, 2.5, 5, 7.5, 10] A in lexicographic order,    *)
(* voltage slowest; every setpoint command is one of the combination after *)
(* the records printed so far; 'Sweep Completed' comes after 15 records.   *)
(***************************************************************************)
Volts == <<100, 125, 150>>
AmpsTenths == <<0, 25, 50, 75, 100>>

Combination(n) ==
    <<Volts[((n - 1) \div 5) + 1], FloatOfTenths(AmpsTenths[((n - 1) % 5) + 1])>>

\* event e, printed or sent after nrec records, is in the order of the sweep
InSweepOrder(e, nrec) ==
    /\ IsRecord(e) => nrec < 15 /\ e[3] = Combination(nrec + 1)
    /\ e[2] = "CURR" => nrec < 15 /\ e[3] = Combination(nrec + 1)[2]
    /\ (e[2] = "VOLTage" /\ e[3] # 0) =>
           nrec < 15 /\ e[3] = Combination(nrec + 1)[1]
    /\ e[2] = "completed" => nrec = 15

\* the trace only grows at its end, and every prefix of it is the trace of an
\* earlier state: the order of all its events is the order of the last event
\* of every state
SweepOrder ==
    trace # <<>> => InSweepOrder(LastOf(trace), RecordsBefore(Len(trace)))

HasCompleted == \E k \in Idx : trace[k][2] = "completed"

C7_FifteenRecordsInOrder ==
    script = "both" =>
        /\ (Ended /\ exc = "none") => HasCompleted
        /\ SweepOrder

C7_Witness ==
    /\ script = "both"
    /\ pc = "done"
    /\ exc = "none"
    /\ HasCompleted
    /\ RecordsBefore(Len(trace)) = 15

(***************************************************************************)
(* C8: a read-back is accepted iff |requested - readback| <= 0.1, the      *)
(* boundary included; a rejection is a hard stop: after the rejected       *)
(* 'CURRent?' only shutdown commands are issued.                           *)
(* The check compares doubles: for 2.5 requested and "2.6" read back,      *)
(* abs(2.6 - 2.5) is 0.10000000000000009 > 0.1, and the point is rejected. *)
(***************************************************************************)
AbsInt(n) == IF n < 0 THEN 0 - n ELSE n

LastReadbackAt ==
    CHOOSE k \in Idx : trace[k][2] = "CURRent?"
                       /\ \A j \in (k + 1)..Len(trace) : trace[j][2] # "CURRent?"

HardStop ==
    \A k \in (LastReadbackAt + 1)..Len(trace) :
        IsDev(trace[k]) => IsShutdownCmd(trace[k])

\* the statements from the answer of the read-back to its check
ReadbackPcs ==
    {"b_readback_set", "b_readback_float", "b_readback_chk",
     "l_readback_set", "l_readback_float", "l_readback_chk"}

\* the read-back has just been answered with a number, and nothing but its
\* assignment and its check has happened since
JustReadBack ==
    /\ trace # <<>>
    /\ LastOf(trace)[2] = "CURRent?"
    /\ LastOf(trace)[4]
    /\ pc \notin ReadbackPcs
    /\ IsNumber(readback_current_str)
    /\ exc \in {"none", "VerificationError"}

C8_ToleranceInclusive ==
    script \in {"both", "load"} =>
        /\ JustReadBack =>
               ((exc = "VerificationError") <=>
                    (AbsInt(readback_current_str[2] - TenthsOf(Setpoint)) > 1))
        /\ exc = "VerificationError" => HardStop

(***************************************************************************)
(* C9: an answer that is no number never raises: no run has a ValueError   *)
(* (the answer becomes not-a-number and the sweep goes on).                *)
(* Only the measurement queries of the two load scripts go through         *)
(* parse_float; the read-back 'CURRent?' and the simulator's               *)
(* 'MEASure:VOLTage?' are converted with float(), which raises.            *)
(***************************************************************************)
C9_UnparsableNeverAborts == exc # "ValueError"

Elems(t) == {t[n] : n \in 1..Len(t)}

C11_NoResumeAfterFailure ==
    [][exc # "none" =>
         /\ pc' \in FinallyPcs \cup ExceptPcs \cup EndPcs
         /\ \/ trace' = trace
            \/ /\ Len(trace') = Len(trace) + 1
               /\ \A k \in Idx : trace'[k] = trace[k]
               /\ IsDev(LastOf(trace')) => IsShutdownCmd(LastOf(trace'))]_vars

\* a verification failure after at least one completed point, and the
\* shutdown of both instruments after it
C11_Witness ==
    /\ script = "both"
    /\ pc = "done"
    /\ exc = "VerificationError"
    /\ RecordsBefore(Len(trace) + 1) > 0
    /\ CleanupSeq("sim") = SimCleanup
    /\ CleanupSeq("load") = LoadCleanup

(***************************************************************************)
(* C12: an error reported by the load at setup is fatal: when the load has *)
(* answered 'SYSTem:ERRor?' with anything other than "0", "OK" or a text   *)
(* starting with "0,", the run holds no 'OUTPut ON', no 'LOAD ON' and no   *)
(* 'CURR' command, neither before nor after the answer, and the script    *)
(* is at the assignment or the check of the answer, or has left its try    *)
(* block.  (The answer is what the query has returned, then error_string   *)
(* for the rest of the run; a Ctrl+C before the assignment drops it, and   *)
(* has ended the try block itself.)                                        *)
(***************************************************************************)
NoErrorAnswer(s) ==
    \/ s = <<"0">>
    \/ s = <<"O", "K">>
    \/ (Len(s) >= 2 /\ s[1] = "0" /\ s[2] = ",")

\* the statements that assign and check the answer to 'SYSTem:ERRor?'
ErrAssignPcs == {"b_load_err_set", "l_err_set"}
ErrCheckPcs == {"b_load_err_chk", "l_err_chk"}

ErrorReported ==
    \/ pc \in ErrAssignPcs /\ ~NoErrorAnswer(reply)
    \/ error_string # NoError /\ ~NoErrorAnswer(error_string)

C12_SetupErrorIsFatal ==
    ErrorReported =>
        /\ pc \in ErrAssignPcs \cup ErrCheckPcs \cup ExceptPcs \cup FinallyPcs
                  \cup EndPcs
        /\ pc \in ErrCheckPcs => SetupError(error_string)
        /\ \A j \in Idx : trace[j][2] \notin {"OUTPut ON", "LOAD ON", "CURR"}

\* Control_Both has ended after the load answered "00": the simulator, which
\* was connected, has been shut down
C12_Witness ==
    /\ script = "both"
    /\ pc = "done"
    /\ error_string = <<"0", "0">>
    /\ CleanupSeq("sim") = SimCleanup

(***************************************************************************)
(* C13: Control_Both reports exactly one final status.  No run holds two   *)
(* status messages; once the try statement is left for its finally block   *)
(* there is exactly one: 'interrupted' iff a KeyboardInterrupt was raised  *)
(* (the 'q' key at the poll, or Ctrl+C), 'error' iff any other exception   *)
(* was raised, 'completed' iff none was; a run that a Ctrl+C ends is       *)
(* reported as 'interrupted'.  Whatever the status, the same shutdown      *)
(* follows it: when the run is over, every instrument whose handle was     *)
(* assigned has had its whole cleanup sequence, after the status message,  *)
(* and the others none.                                                    *)
(* (An exception of a cleanup step replaces exc: the status is compared    *)
(* with exc up to the normal end of the finally block.)                    *)
(* Ctrl+C in a sleep of the finally block ends the run with 'Sweep         *)
(* Completed' or an error as its only status; Ctrl+C while 'Sweep          *)
(* Completed' is printed adds 'interrupted' to it; Ctrl+C on entering the  *)
(* except clause leaves the run with no status at all.                     *)
(***************************************************************************)
StatusNames == {"completed", "interrupted", "error"}

StatusAt == {k \in Idx : trace[k][1] = "out" /\ trace[k][2] \in StatusNames}

Reported(name) == \E k \in StatusAt : trace[k][2] = name

StatusOf(e) ==
    IF e = "none" THEN "completed"
    ELSE IF e = "KeyboardInterrupt" THEN "interrupted" ELSE "error"

ShutdownFollows(dev, handle, seq) ==
    IF handle = "None" THEN CleanupSeq(dev) = <<>>
    ELSE /\ CleanupSeq(dev) = seq
         /\ \A k \in StatusAt : k < CleanupFrom(dev)

C13_OneFinalStatus ==
    script = "both" =>
        /\ Cardinality(StatusAt) <= 1
        /\ pc \in FinallyPcs \cup EndPcs => Cardinality(StatusAt) = 1
        /\ pc \in FinallyPcs \cup {"done"} => Reported(StatusOf(exc))
        /\ (pc = "crashed" /\ exc = "KeyboardInterrupt") =>
               Reported("interrupted")
        /\ pc = "done" =>
             /\ ShutdownFollows("sim", simulator_socket, SimCleanup)
             /\ ShutdownFollows("load", load_instrument, LoadCleanup)

\* 'q' read at a poll after a completed point: reported as interrupted, and
\* both instruments shut down
C13_Witness ==
    /\ script = "both"
    /\ pc = "done"
    /\ exc = "KeyboardInterrupt"
    /\ \E k \in Idx : trace[k][2] = "hard stop" /\ RecordsBefore(k) > 0
    /\ Reported("interrupted")
    /\ CleanupSeq("sim") = SimCleanup
    /\ CleanupSeq("load") = LoadCleanup

(***************************************************************************)
(* C14: in Control_Both the commands to the load and the result records of *)
(* the sweep follow one fixed cycle: peak limit, CURR, LOAD ON, the        *)
(* read-back 'CURRent?', MEASure:VOLTage?, MEASure:CURRent?,               *)
(* MEASure:POWer?, record.  The first of these events of a run is a peak   *)
(* limit; each later one comes after one that did not fail and is its      *)
(* successor in the cycle, so nothing of point n+1 is issued before the    *)
(* record of point n; and the record of a point carries the setpoint of    *)
(* the last CURR command before it.                                        *)
(***************************************************************************)
PointCycle ==
    <<"CURRent:PEAK:MAXimum:AC", "CURR", "LOAD ON", "CURRent?",
      "MEASure:VOLTage?", "MEASure:CURRent?", "MEASure:POWer?", "record">>

PointCmds == {PointCycle[n] : n \in 1..Len(PointCycle)}

IsPointEv(e) == e[2] \in PointCmds

\* the events of the cycle up to position k of the trace
PointEvsUpTo(k) == {j \in 1..k : IsPointEv(trace[j])}

\* the last position before k that satisfies Is(_), 0 if there is none; the
\* positions k - 1, k - 2 and k - near are looked at first
LastBefore(k, Is(_), near) ==
    IF k > 1 /\ Is(trace[k - 1]) THEN k - 1
    ELSE IF k > 2 /\ Is(trace[k - 2]) THEN k - 2
    ELSE IF k > near /\ Is(trace[k - near])
            /\ \A j \in (k - near + 1)..(k - 1) : ~Is(trace[j]) THEN k - near
    ELSE LET S == {j \in 1..(k - 1) : Is(trace[j])}
         IN  IF S = {} THEN 0 ELSE CHOOSE j \in S : \A l \in S : l <= j

IsCurr(e) == e[2] = "CURR"

CycleIndex(cmd) == CHOOSE n \in 1..Len(PointCycle) : PointCycle[n] = cmd

\* the event at position k of the trace is in its place in the cycle
InPointOrder(k) ==
    IsPointEv(trace[k]) =>
        LET before == LastBefore(k, IsPointEv, 1)
        IN  /\ IF before = 0 THEN trace[k][2] = PointCycle[1]
               ELSE /\ trace[before][4]
                    /\ CycleIndex(trace[k][2]) =
                         (CycleIndex(trace[before][2]) % Len(PointCycle)) + 1
            /\ IsRecord(trace[k]) =>
                 LET curr == LastBefore(k, IsCurr, 6)
                 IN  curr > 0 /\ trace[curr][3] = trace[k][3][2]

\* C14: every event of the cycle is in its place.  The trace only grows at
\* its end, and every prefix of it is the trace of an earlier state: all its
\* events are in their places iff the last event of every state is
C14_PointCommandOrder ==
    script = "both" => (trace # <<>> => InPointOrder(Len(trace)))

\* the second point of the sweep has been recorded
C14_Witness ==
    /\ script = "both"
    /\ Cardinality(PointEvsUpTo(Len(trace))) = 2 * Len(PointCycle)
    /\ IsRecord(LastOf(trace))
    /\ LastOf(trace)[3] = <<VOLTAGE_START_V, CURRENT_STEP_A>>

(***************************************************************************)
(* C15: the abort key is observed only at the poll.  A key is read only by *)
(* the poll, and pressing one changes nothing but the keyboard buffer.     *)
(* When 'q' has been pressed during a point, after the point's first       *)
(* setpoint command (the limit of the peak current) was issued, a step of  *)
(* the point that raises nothing is its next statement - through the       *)
(* read-back, the three measurement queries and the record - and sends or  *)
(* prints what that statement does; and the abort takes effect at the next *)
(* poll: no limit of the peak current, the first command of a point, is    *)
(* sent after the key press.  (A failure of a statement, or Ctrl+C,      *)
(* still ends the point: these are the other failures.)                    *)
(* The poll reads one key: with another key unread before 'q' it reads     *)
(* that key, the next point is run, and 'q' is read one poll later.        *)
(***************************************************************************)
\* the request that is followed was made during a point: the last event
\* before it is a command or a query of the point
AbortDuringPoint ==
    /\ qMark > 1
    /\ trace[qMark - 1][2] \in PointCmds \ {"record"}

\* the statements of a point after its first setpoint command, with what
\* each sends or prints ("": nothing)
AfterFirstSetpoint ==
    << <<"b_curr", "CURR">>, <<"b_load_on", "LOAD ON">>,
       <<"b_readback", "CURRent?">>, <<"b_readback_set", "">>,
       <<"b_readback_float", "">>, <<"b_readback_chk", "">>,
       <<"b_meas_v", "MEASure:VOLTage?">>, <<"b_meas_v_set", "">>,
       <<"b_meas_i", "MEASure:CURRent?">>, <<"b_meas_i_set", "">>,
       <<"b_meas_p", "MEASure:POWer?">>, <<"b_meas_p_set", "">>,
       <<"b_record", "record">> >>

PointGoesOn ==
    \E n \in 1..Len(AfterFirstSetpoint) :
        /\ pc = AfterFirstSetpoint[n][1]
        /\ IF AfterFirstSetpoint[n][2] = "" THEN trace' = trace
           ELSE /\ Len(trace') = Len(trace) + 1
                /\ LastOf(trace')[2] = AfterFirstSetpoint[n][2]
                /\ LastOf(trace')[4]
        /\ pc' = IF n < Len(AfterFirstSetpoint) THEN AfterFirstSetpoint[n + 1][1]
                 ELSE "b_inc"

C15_AbortOnlyAtPoll ==
    [][/\ Len(kbd') < Len(kbd) => pc = "b_poll"
       /\ Len(kbd') > Len(kbd) =>
             pc' = pc /\ exc' = exc /\ propagating' = propagating /\ trace' = trace
       /\ (AbortDuringPoint /\ pc \in DuringPoint /\ kbd' = kbd /\ exc' = "none")
             => PointGoesOn
       /\ (AbortDuringPoint /\ trace' # trace) =>
             ~(LastOf(trace')[2] = PointCycle[1] /\ LastOf(trace')[4])]_vars

(***************************************************************************)
(* C16: in Control_Both 'OUTPut ON' is sent only when both instruments     *)
(* have connected and the load's setup check has passed: whenever the      *)
(* trace holds an 'OUTPut ON' (sent or failed), both handles are assigned, *)
(* no earlier connection, command or query has failed, and before it stand *)
(* the simulator's connection, the load's connection, the load's           *)
(* 'SYSTem:ERRor?' and its '*IDN?', in this order; the answer to           *)
(* 'SYSTem:ERRor?', assigned to error_string, is a no-error answer when    *)
(* the script is past its check, and no run that holds a reported error    *)
(* holds an 'OUTPut ON'.                                                   *)
(***************************************************************************)
OutputOnAt == {k \in Idx : trace[k][2] = "OUTPut ON"}

SetupBefore(k) ==
    \E a \in 1..(k - 1) :
      /\ Sent(a, "sim", "connect")
      /\ \E b \in (a + 1)..(k - 1) :
           /\ Sent(b, "load", "connect")
           /\ \E c \in (b + 1)..(k - 1) :
                /\ Sent(c, "load", "SYSTem:ERRor?")
                /\ \E d \in (c + 1)..(k - 1) : Sent(d, "load", "*IDN?")

C16_OutputOnlyAfterSetup ==
    script = "both" =>
        /\ pc \in {"b_load_idn", "b_load_return"} => NoErrorAnswer(error_string)
        /\ \A k \in OutputOnAt :
             /\ simulator_socket # "None"
             /\ load_instrument # "None"
             /\ \A j \in 1..(k - 1) : trace[j][4]
             /\ SetupBefore(k)
             /\ ~ErrorReported

\* the output has just been enabled, both instruments being connected
C16_Witness ==
    /\ script = "both"
    /\ pc = "b_vset"
    /\ v_set = VOLTAGE_START_V
    /\ OutputOnAt # {}
    /\ \A k \in OutputOnAt : trace[k][4] /\ SetupBefore(k)

(***************************************************************************)
(* C17: in Control_Both every 'CURR' setpoint command comes right after a  *)
(* peak limit 'CURRent:PEAK:MAXimum:AC' that was sent, and the limit is    *)
(* strictly positive and not less than the setpoint: 1.5 times the         *)
(* setpoint when the setpoint is positive (twice the limit is three times  *)
(* the setpoint), and 0.1 when it is zero.                                 *)
(***************************************************************************)
PeakBefore(k) ==
    /\ k > 1
    /\ Sent(k - 1, "load", "CURRent:PEAK:MAXimum:AC")

PeakCovers(peak, setpoint) ==
    /\ DLt(DZero, peak)
    /\ DLeq(setpoint, peak)
    /\ IF DLt(DZero, setpoint)
       THEN DAdd(peak, peak) = DAdd(DAdd(setpoint, setpoint), setpoint)
       ELSE peak = FloatOfTenths(1)

\* the setpoint command at position k of the trace has its peak limit
PeakLimitAt(k) ==
    IsCurr(trace[k]) =>
        /\ PeakBefore(k)
        /\ PeakCovers(trace[k - 1][3], trace[k][3])

\* C17: every setpoint command comes right after its peak limit.  As the
\* trace only grows at its end, all of them do iff the last event of every
\* state does
C17_PeakLimitBeforeSetpoint ==
    script = "both" => (trace # <<>> => PeakLimitAt(Len(trace)))

\* the setpoint 2.5 A has been sent after its peak limit 3.75 A, and the
\* setpoint 0 A before it after the limit 0.1 A
C17_Witness ==
    /\ script = "both"
    /\ pc = "b_load_on"
    /\ i_set = FloatOfTenths(25)
    /\ Sent(Len(trace), "load", "CURR")
    /\ DAdd(trace[Len(trace) - 1][3], trace[Len(trace) - 1][3]) = FloatOfTenths(75)
    /\ \E k \in Idx : /\ IsCurr(trace[k]) /\ trace[k][3] = DZero
                      /\ trace[k - 1][3] = FloatOfTenths(1)

(***************************************************************************)
(* C18: in Control Load the setpoint 'CURR <i>' is sent only after, in the *)
(* same iteration, 'LOAD ON' was sent and 'LOAD:STATus?' was answered "1"  *)
(* or "OK": every CURR in the trace comes right after a LOAD ON and a      *)
(* LOAD:STATus? that were sent, and while the iteration is past its check  *)
(* load_status is "1" or "OK".  When the answer is anything else, the      *)
(* script is at the assignment or the check of the answer or has left its  *)
(* try block, and after that status query the only commands to the load    *)
(* are those of the cleanup: no CURR, no read-back and no measurement      *)
(* query, in this or a later iteration.  (The answer is what the query has *)
(* returned, then load_status.)                                            *)
(***************************************************************************)
LoadIsOn == load_status \in {"1", "OK"}

\* the statements of an iteration after the check of load_status
PastStatusCheck ==
    pc \in {"l_curr", "l_load_on2", "l_readback", "l_readback_set",
            "l_readback_float", "l_readback_chk", "l_meas_v", "l_meas_v_set",
            "l_meas_i", "l_meas_i_set", "l_meas_p", "l_meas_p_set",
            "l_parse_v", "l_parse_i", "l_parse_p", "l_record"}

\* the load has answered 'LOAD:STATus?' with something else than "1" or "OK"
StatusRefused ==
    \/ pc = "l_status_set" /\ reply[1] \notin {"1", "OK"}
    \/ load_status # NoStatus /\ ~LoadIsOn

IsStatusQuery(e) == e[2] = "LOAD:STATus?"

OnlyCleanupAfter(k) ==
    /\ k > 0
    /\ \A j \in (k + 1)..Len(trace) :
         IsDev(trace[j]) => IsShutdownCmd(trace[j])

C18_SetpointOnlyWhenLoadOn ==
    script = "load" =>
        /\ PastStatusCheck => LoadIsOn
        /\ \A k \in Idx : IsCurr(trace[k]) =>
             /\ k > 2
             /\ Sent(k - 1, "load", "LOAD:STATus?")
             /\ Sent(k - 2, "load", "LOAD ON")
        /\ StatusRefused =>
             /\ pc \in {"l_status_set", "l_status_chk"} \cup ExceptPcs
                       \cup FinallyPcs \cup EndPcs
             /\ OnlyCleanupAfter(LastBefore(Len(trace) + 1, IsStatusQuery, 1))

\* the load answered "0" in the second iteration: the run is over, after the
\* cleanup of the load, with one CURR (that of the first iteration)
C18_Witness ==
    /\ script = "load"
    /\ pc = "done"
    /\ load_status = "0"
    /\ i = 1
    /\ Cardinality({k \in Idx : IsCurr(trace[k])}) = 1
    /\ CleanupSeq("load") = LoadCleanup
====
